---- MODULE Spec2Model ----
(***************************************************************************)
(* GitGrade analyzer: backend/analyzer.js (class RepoAnalyzer) and the     *)
(* POST /api/analyze handler of backend/server.js.                         *)
(*                                                                         *)
(* Text that the code inspects character by character (the repository URL, *)
(* the reply of the generative service) is a sequence of one-character     *)
(* strings; text that the code only builds (messages, the fallback         *)
(* template) is a TLA+ string.                                             *)
(***************************************************************************)
EXTENDS Integers, Sequences, FiniteSets, TLC

VARIABLES
    requests,   \* the inbound requests of this run (ids)
    world,      \* which set of answers the two external services draw from
    handles,    \* analyzer.octokit / analyzer.model, built once (server.js:14)
    pc,         \* per request: the await it is suspended at
    url,        \* per request: req.body.repo_url
    parsed,     \* per request: result of parseRepoUrl
    metrics,    \* per request: the local `metrics` object of fetchMetrics
    probe,      \* per request: index into cicdPaths of the probe in flight
    score,      \* per request: result of calculateScore
    insights,   \* per request: result of generateAIInsights
    outcome,    \* per request: how analyzeRepository ended
    response,   \* per request: the HTTP response sent
    trace,      \* per request: stages entered and outbound calls issued, in order
    resps       \* per request: the answers received from the outside, in order

vars == <<requests, world, handles, pc, url, parsed, metrics, probe, score,
          insights, outcome, response, trace, resps>>

-----------------------------------------------------------------------------
(* Bounds of the model *)

MaxRequests == 2      \* concurrent requests in SpecConc
MaxRepoTokens == 3    \* tokens of a repository name in SpecUrl
MaxBullets == 2       \* lines after the ROADMAP: marker in SpecInsights

-----------------------------------------------------------------------------
(* JavaScript string primitives on character sequences *)

Min(a, b) == IF a < b THEN a ELSE b
Max(a, b) == IF a > b THEN a ELSE b

Whitespace == {" ", "\n", "\t"}

RECURSIVE Join(_)
Join(s) == IF s = <<>> THEN "" ELSE s[1] \o Join(Tail(s))

RECURSIVE Flatten(_)
Flatten(ss) == IF ss = <<>> THEN <<>> ELSE ss[1] \o Flatten(Tail(ss))

\* p occurs in s at position i
OccursAt(s, p, i) ==
    /\ i >= 1
    /\ i + Len(p) - 1 <= Len(s)
    /\ \A k \in 1..Len(p) : s[i + k - 1] = p[k]

\* String.prototype.indexOf, 1-based; 0 when absent
IndexOf(s, p) ==
    LET hits == {i \in 1..(Len(s) + 1) : OccursAt(s, p, i)}
    IN  IF hits = {} THEN 0 ELSE CHOOSE i \in hits : \A j \in hits : i <= j

includes(s, p) == IndexOf(s, p) # 0

startsWith(s, p) == OccursAt(s, p, 1)

\* String.prototype.replace with a string pattern: the first occurrence only
replace(s, p, r) ==
    LET i == IndexOf(s, p)
    IN  IF i = 0 THEN s
        ELSE SubSeq(s, 1, i - 1) \o r \o SubSeq(s, i + Len(p), Len(s))

\* String.prototype.split with a string separator
RECURSIVE split(_, _)
split(s, sep) ==
    LET i == IndexOf(s, sep)
    IN  IF i = 0 THEN <<s>>
        ELSE <<SubSeq(s, 1, i - 1)>> \o split(SubSeq(s, i + Len(sep), Len(s)), sep)

RECURSIVE trimStart(_)
trimStart(s) ==
    IF s # <<>> /\ s[1] \in Whitespace THEN trimStart(Tail(s)) ELSE s

RECURSIVE trimEnd(_)
trimEnd(s) ==
    IF s # <<>> /\ s[Len(s)] \in Whitespace
    THEN trimEnd(SubSeq(s, 1, Len(s) - 1)) ELSE s

trim(s) == trimEnd(trimStart(s))

\* a value that may be absent (null / undefined / not yet assigned)
None == [some |-> FALSE]
Some(v) == [some |-> TRUE, value |-> v]

-----------------------------------------------------------------------------
(* parseRepoUrl (analyzer.js:15-22) *)

GithubCom == <<"g","i","t","h","u","b",".","c","o","m">>
DotGit == <<".","g","i","t">>
Slash == <<"/">>
HostPrefix == GithubCom \o Slash
Https == <<"h","t","t","p","s",":","/","/">>

\* the longest run of characters other than "/" that starts at position i
RECURSIVE RunLen(_, _)
RunLen(s, i) ==
    IF i > Len(s) \/ s[i] = "/" THEN 0 ELSE 1 + RunLen(s, i + 1)

\* /github\.com\/([^\/]+)\/([^\/]+)/ tried at position i: the two groups, when
\* it matches there. Each [^\/]+ is greedy and what follows the first one is a
\* "/", so backtracking into a shorter run never helps.
MatchAt(s, i) ==
    LET o  == i + Len(GithubCom) + 1
        ol == RunLen(s, o)
        n  == o + ol + 1
        nl == RunLen(s, n)
    IN  IF /\ OccursAt(s, GithubCom \o Slash, i)
           /\ ol >= 1
           /\ o + ol <= Len(s) /\ s[o + ol] = "/"
           /\ nl >= 1
        THEN [ok |-> TRUE, g1 |-> SubSeq(s, o, o + ol - 1),
                           g2 |-> SubSeq(s, n, n + nl - 1)]
        ELSE [ok |-> FALSE]

\* String.prototype.match without the g flag: the leftmost match
match(s) ==
    LET hits == {i \in 1..Len(s) : MatchAt(s, i).ok}
    IN  IF hits = {} THEN [ok |-> FALSE]
        ELSE MatchAt(s, CHOOSE i \in hits : \A j \in hits : i <= j)

parseRepoUrl(u) ==
    LET m == match(u)
    IN  IF ~m.ok THEN [ok |-> FALSE, message |-> "Invalid GitHub URL"]
        ELSE [ok |-> TRUE, owner |-> m.g1, repo |-> replace(m.g2, DotGit, <<>>)]

-----------------------------------------------------------------------------
(* calculateScore (analyzer.js:172-231) *)

\* calculateScore without the floor of 5 on the commit dimension
calculateScoreNoFloor(m) ==
    LET readme   == IF m.has_readme
                    THEN (IF m.readme_length > 1000 THEN 20
                          ELSE IF m.readme_length > 500 THEN 15
                          ELSE 10)
                    ELSE 0
        commits  == IF m.total_commits >= 100 THEN 25
                    ELSE IF m.total_commits >= 50 THEN 20
                    ELSE IF m.total_commits >= 20 THEN 15
                    ELSE m.total_commits \div 2
        recent   == IF m.recent_commits > 20 THEN 15
                    ELSE IF m.recent_commits > 10 THEN 10
                    ELSE IF m.recent_commits > 0 THEN 5
                    ELSE 0
        tests    == IF m.has_tests THEN 20 ELSE 0
        cicd     == IF m.has_cicd THEN 10 ELSE 0
        branches == IF m.branch_count > 3 THEN 5
                    ELSE IF m.branch_count > 1 THEN 3
                    ELSE 0
        prs      == IF m.total_prs > 10 THEN 5
                    ELSE IF m.total_prs > 0 THEN 3
                    ELSE 0
    IN  Min(100, readme + commits + recent + tests + cicd + branches + prs)

calculateScore(m) ==
    LET readme   == IF m.has_readme
                    THEN (IF m.readme_length > 1000 THEN 20
                          ELSE IF m.readme_length > 500 THEN 15
                          ELSE 10)
                    ELSE 0
        commits  == IF m.total_commits >= 100 THEN 25
                    ELSE IF m.total_commits >= 50 THEN 20
                    ELSE IF m.total_commits >= 20 THEN 15
                    ELSE Max(5, m.total_commits \div 2)
        recent   == IF m.recent_commits > 20 THEN 15
                    ELSE IF m.recent_commits > 10 THEN 10
                    ELSE IF m.recent_commits > 0 THEN 5
                    ELSE 0
        tests    == IF m.has_tests THEN 20 ELSE 0
        cicd     == IF m.has_cicd THEN 10 ELSE 0
        branches == IF m.branch_count > 3 THEN 5
                    ELSE IF m.branch_count > 1 THEN 3
                    ELSE 0
        prs      == IF m.total_prs > 10 THEN 5
                    ELSE IF m.total_prs > 0 THEN 3
                    ELSE 0
    IN  Min(100, readme + commits + recent + tests + cicd + branches + prs)

-----------------------------------------------------------------------------
(* generateAIInsights (analyzer.js:234-305) *)

SummaryMarker == <<"S","U","M","M","A","R","Y",":">>
RoadmapMarker == <<"R","O","A","D","M","A","P",":">>
Newline == <<"\n">>

\* line.replace(/^-\s*/, ''): the pattern is anchored at the start of the line
stripBullet(line) ==
    IF startsWith(line, <<"-">>) THEN trimStart(Tail(line)) ELSE line

isBullet(line) == startsWith(trim(line), <<"-">>)

roadmapItem(line) == trim(stripBullet(line))

nonEmpty(item) == Len(item) > 0

\* analyzer.js:271-282, the reply parsed
parseReply(responseText) ==
    LET parts       == split(responseText, RoadmapMarker)
        summary     == trim(replace(parts[1], SummaryMarker, <<>>))
        roadmapText == IF Len(parts) >= 2 /\ parts[2] # <<>>
                       THEN trim(parts[2]) ELSE <<>>
        bullets     == SelectSeq(split(roadmapText, Newline), isBullet)
        items       == [i \in 1..Len(bullets) |-> roadmapItem(bullets[i])]
        roadmap     == SelectSeq(items, nonEmpty)
    IN  [summary |-> Join(summary),
         roadmap |-> [i \in 1..Len(roadmap) |-> Join(roadmap[i])]]

\* analyzer.js:288-292
fallbackSummary(m, sc) ==
    IF sc > 70
    THEN "Repository demonstrates strong development practices with "
         \o ToString(m.total_commits) \o " commits and "
         \o (IF m.has_tests THEN "testing" ELSE "active development") \o "."
    ELSE IF sc > 40
    THEN "Repository shows moderate development practices. "
         \o (IF m.has_readme THEN "Has documentation" ELSE "Needs documentation")
         \o " and "
         \o (IF m.has_tests THEN "includes tests" ELSE "lacks tests") \o "."
    ELSE "Repository is in early stages. Focus on establishing "
         \o (IF ~m.has_readme THEN "documentation, " ELSE "")
         \o (IF ~m.has_tests THEN "testing, " ELSE "")
         \o "and consistent development practices."

\* the fallback roadmap without its last, unconditional item
fallbackRoadmapShort(m) ==
    << IF ~m.has_readme
       THEN "Add comprehensive README with setup instructions and project overview"
       ELSE "Expand README with usage examples and contribution guidelines",
       IF ~m.has_tests
       THEN "Implement unit tests for core functionality"
       ELSE "Increase test coverage to 80%+",
       IF ~m.has_cicd
       THEN "Set up CI/CD pipeline using GitHub Actions"
       ELSE "Enhance CI/CD with automated deployments",
       IF m.recent_commits < 10
       THEN "Establish regular commit schedule (weekly minimum)"
       ELSE "Maintain consistent commit patterns",
       IF m.branch_count <= 1
       THEN "Adopt feature branch workflow (main + feature branches)"
       ELSE "Continue effective branch management" >>

\* analyzer.js:294-301
fallbackRoadmap(m) ==
    << IF ~m.has_readme
       THEN "Add comprehensive README with setup instructions and project overview"
       ELSE "Expand README with usage examples and contribution guidelines",
       IF ~m.has_tests
       THEN "Implement unit tests for core functionality"
       ELSE "Increase test coverage to 80%+",
       IF ~m.has_cicd
       THEN "Set up CI/CD pipeline using GitHub Actions"
       ELSE "Enhance CI/CD with automated deployments",
       IF m.recent_commits < 10
       THEN "Establish regular commit schedule (weekly minimum)"
       ELSE "Maintain consistent commit patterns",
       IF m.branch_count <= 1
       THEN "Adopt feature branch workflow (main + feature branches)"
       ELSE "Continue effective branch management",
       "Add code documentation and inline comments for complex logic" >>

\* generateAIInsights falling back also when the parsed roadmap is empty
generateAIInsightsOnEmpty(m, sc, gen) ==
    IF gen.ok /\ parseReply(gen.text).roadmap # <<>>
    THEN parseReply(gen.text)
    ELSE [summary |-> fallbackSummary(m, sc), roadmap |-> fallbackRoadmap(m)]

\* the try/catch of analyzer.js:266-304; gen is what generateContent did:
\* [ok |-> TRUE, text |-> reply] or [ok |-> FALSE, message |-> ...] (it threw)
generateAIInsights(m, sc, gen) ==
    IF gen.ok
    THEN parseReply(gen.text)
    ELSE [summary |-> fallbackSummary(m, sc), roadmap |-> fallbackRoadmap(m)]

-----------------------------------------------------------------------------
(* fetchMetrics (analyzer.js:50-126): what each answered call does to the  *)
(* local metrics object                                                     *)

\* metrics.key = v on an object that grows key by key
Put(m, k, v) == [f \in DOMAIN m \cup {k} |-> IF f = k THEN v ELSE m[f]]

\* a || d on a nullable string: null and '' are both falsy
OrElse(a, d) == IF a.some /\ a.value # "" THEN a.value ELSE d

\* analyzer.js:57-62
AfterRepoGet(m, repoData) ==
    LET m1 == Put(m,  "name", repoData.name)
        m2 == Put(m1, "stars", repoData.stargazers_count)
        m3 == Put(m2, "forks", repoData.forks_count)
        m4 == Put(m3, "watchers", repoData.watchers_count)
        m5 == Put(m4, "open_issues", repoData.open_issues_count)
    IN  Put(m5, "primary_language", OrElse(repoData.language, "Unknown"))

\* Object.keys of the language -> bytes object, given as its entries in order
ObjectKeys(entries) == [i \in 1..Len(entries) |-> entries[i][1]]

\* analyzer.js:66
AfterLanguages(m, languages) == Put(m, "languages", ObjectKeys(languages))

\* Buffer.from(content, 'base64').length; content is given by its number of
\* base64 digits, each carrying 6 bits
Base64Bytes(digits) == (digits * 6) \div 8

\* the catch of the README try leaving readme_length unset
AfterReadmeNoLength(m, resp) ==
    IF resp.ok
    THEN Put(Put(m, "has_readme", TRUE),
             "readme_length", Base64Bytes(resp.data.content))
    ELSE Put(m, "has_readme", FALSE)

\* analyzer.js:69-76, the try and its catch
AfterReadme(m, resp) ==
    IF resp.ok
    THEN Put(Put(m, "has_readme", TRUE),
             "readme_length", Base64Bytes(resp.data.content))
    ELSE Put(Put(m, "has_readme", FALSE), "readme_length", 0)

\* a page of commits is given as runs of commits sharing an author month
RECURSIVE PageLength(_)
PageLength(page) ==
    IF page = <<>> THEN 0 ELSE page[1].n + PageLength(Tail(page))

\* analyzer.js:87-92: commits whose author date is after now - 3 months
recentOf(page, now) ==
    LET threeMonthsAgo == now - 3
        after(run)     == run.month > threeMonthsAgo
    IN  PageLength(SelectSeq(page, after))

\* analyzer.js:84-92
AfterCommits(m, commits, now) ==
    Put(Put(m, "total_commits", PageLength(commits)),
        "recent_commits", recentOf(commits, now))

\* analyzer.js:100
AfterBranches(m, branches) == Put(m, "branch_count", branches.length)

\* analyzer.js:103-113, the try and its catch
AfterPulls(m, resp) ==
    IF resp.ok THEN Put(m, "total_prs", resp.data.length)
    ELSE Put(m, "total_prs", 0)

LowerOf ==
    [c \in {"A","B","C","D","E","F","G","H","I","J","K","L","M","N","O","P","Q",
            "R","S","T","U","V","W","X","Y","Z"} |->
       CASE c = "A" -> "a" [] c = "B" -> "b" [] c = "C" -> "c" [] c = "D" -> "d"
         [] c = "E" -> "e" [] c = "F" -> "f" [] c = "G" -> "g" [] c = "H" -> "h"
         [] c = "I" -> "i" [] c = "J" -> "j" [] c = "K" -> "k" [] c = "L" -> "l"
         [] c = "M" -> "m" [] c = "N" -> "n" [] c = "O" -> "o" [] c = "P" -> "p"
         [] c = "Q" -> "q" [] c = "R" -> "r" [] c = "S" -> "s" [] c = "T" -> "t"
         [] c = "U" -> "u" [] c = "V" -> "v" [] c = "W" -> "w" [] c = "X" -> "x"
         [] c = "Y" -> "y" [] c = "Z" -> "z"]

toLowerCase(s) ==
    [i \in 1..Len(s) |-> IF s[i] \in DOMAIN LowerOf THEN LowerOf[s[i]] ELSE s[i]]

\* analyzer.js:130
testIndicators ==
    << <<"t","e","s","t">>, <<"t","e","s","t","s">>,
       <<"_","_","t","e","s","t","s","_","_">>,
       <<"s","p","e","c">>, <<"s","p","e","c","s">> >>

\* checkForTests (analyzer.js:129-147), given the answer of the root listing
checkForTests(resp) ==
    IF resp.ok
    THEN \E i \in 1..Len(resp.data) : \E k \in 1..Len(testIndicators) :
            includes(toLowerCase(resp.data[i].name), testIndicators[k])
    ELSE FALSE

\* analyzer.js:151-157
cicdPaths ==
    << ".github/workflows", ".gitlab-ci.yml", ".travis.yml", "Jenkinsfile",
       ".circleci/config.yml" >>

\* the README call left outside an inner try/catch
CaughtCallsNoReadme == {"pulls.list", "checkForTests", "checkForCICD"}

\* the calls whose failure an inner try/catch absorbs (analyzer.js:69-76,
\* 103-113, 132-146, 160-165); every other call of fetchMetrics is covered
\* only by the outer catch of line 123
CaughtCalls == {"repos.getReadme", "pulls.list", "checkForTests", "checkForCICD"}

\* the catch of analyzeRepository rethrowing the message as it came
AnalysisFailedBare(msg) == msg

\* analyzer.js:124 and analyzer.js:45
FetchFailed(msg) == "Failed to fetch metrics: " \o msg
AnalysisFailed(msg) == "Analysis failed: " \o msg

-----------------------------------------------------------------------------
(* The outside world: the answers the hosting API and the generative       *)
(* service may give                                                         *)

Fail(msg) == [ok |-> FALSE, message |-> msg]
Ok(d) == [ok |-> TRUE, data |-> d]
Reply(text) == [ok |-> TRUE, text |-> text]

TokenSeqs(T, n) == UNION {[1..k -> T] : k \in 0..n}


RepoData(lang) ==
    [name |-> "repo", stargazers_count |-> 3, forks_count |-> 1,
     watchers_count |-> 3, open_issues_count |-> 2, language |-> lang]

Run(n, month) == [n |-> n, month |-> month]

GoodReply ==
    SummaryMarker \o <<" ","G","o","o","d",".","\n">> \o RoadmapMarker
    \o <<"\n","-"," ","a","\n","-"," ","b">>

NoMarkerReply == SummaryMarker \o <<" ","G","o","o","d",".">>

\* the answers of the single-request specification
WideWorld ==
    [ now  |-> 24,
      urls |-> { <<>>,
                 <<"g","i","t","l","a","b",".","c","o","m","/","o","/","r">>,
                 GithubCom,
                 HostPrefix \o <<"o">>,
                 Https \o HostPrefix \o <<"o","/","r">>,
                 HostPrefix \o <<"o","/","r">> \o DotGit },
      reposGet |-> { Fail("Not Found"), Ok(RepoData(None)),
                     Ok(RepoData(Some("JavaScript"))) },
      listLanguages |-> { Fail("rate limit exceeded"), Ok(<<>>),
                          Ok(<< <<"JavaScript", 1200>>, <<"CSS", 30>> >>) },
      getReadme |-> { Fail("Not Found"), Ok([content |-> 400]),
                      Ok([content |-> 1336]) },
      listCommits |-> { Fail("Git Repository is empty."), Ok(<<>>),
                        Ok(<<Run(12, 24), Run(18, 21)>>),
                        Ok(<<Run(25, 23), Run(75, 12)>>) },
      listBranches |-> { Fail("Server Error"), Ok([length |-> 1]),
                         Ok([length |-> 5]) },
      pullsList |-> { Fail("Server Error"), Ok([length |-> 0]),
                      Ok([length |-> 12]) },
      getRoot |-> { Fail("This repository is empty."),
                    Ok(<< [name |-> <<"s","r","c">>] >>),
                    Ok(<< [name |-> <<"s","r","c">>],
                          [name |-> <<"_","_","T","e","s","t","s","_","_">>] >>) },
      getPath |-> { Fail("Not Found"), Ok([type |-> "file"]) },
      generateContent |-> { Fail("API key not valid"), Reply(GoodReply),
                            Reply(NoMarkerReply), Reply(<<>>) } ]

\* the answers of the concurrent specification: at most one success and one
\* failure per call
NarrowWorld ==
    [ now  |-> 24,
      urls |-> { HostPrefix \o <<"o">>, HostPrefix \o <<"o","/","r">> },
      reposGet |-> { Fail("Not Found"), Ok(RepoData(Some("JavaScript"))) },
      listLanguages |-> { Ok(<< <<"JavaScript", 1200>> >>) },
      getReadme |-> { Fail("Not Found"), Ok([content |-> 1336]) },
      listCommits |-> { Fail("Git Repository is empty."),
                        Ok(<<Run(25, 23), Run(75, 12)>>) },
      listBranches |-> { Ok([length |-> 5]) },
      pullsList |-> { Fail("Server Error") },
      getRoot |-> { Ok(<< [name |-> <<"t","e","s","t">>] >>) },
      getPath |-> { Fail("Not Found"), Ok([type |-> "file"]) },
      generateContent |-> { Fail("API key not valid"), Reply(GoodReply) } ]

\* what precedes the marker: the raw text and the summary it states
Heads ==
    { [raw |-> SummaryMarker \o <<" ","G","o","o","d",".","\n">>,
       token |-> TRUE, text |-> <<"G","o","o","d",".">>],
      [raw |-> SummaryMarker \o <<"O","k","\n">>,
       token |-> TRUE, text |-> <<"O","k">>],
      [raw |-> <<"F","i","n","e","\n">>,
       token |-> FALSE, text |-> <<"F","i","n","e">>],
      [raw |-> <<>>, token |-> FALSE, text |-> <<>>] }

\* one line after the marker: hyphen says that the trimmed line starts with
\* "-", text is what follows the hyphen and the whitespace after it
Lines ==
    { [raw |-> <<"-"," ","a">>,     hyphen |-> TRUE,  text |-> <<"a">>],
      [raw |-> <<"-","b"," ">>,     hyphen |-> TRUE,  text |-> <<"b">>],
      [raw |-> <<" "," ","-"," ","c">>, hyphen |-> TRUE, text |-> <<"c">>],
      [raw |-> <<"-"," ">>,         hyphen |-> TRUE,  text |-> <<>>],
      [raw |-> <<"d">>,             hyphen |-> FALSE, text |-> <<>>] }

ReplyCases ==
    {c \in [head : Heads, marker : BOOLEAN, lines : TokenSeqs(Lines, MaxBullets)] :
        ~c.marker => c.lines = <<>>}

ReplyText(c) ==
    c.head.raw \o
    (IF c.marker
     THEN RoadmapMarker \o Flatten([i \in 1..Len(c.lines) |-> Newline \o c.lines[i].raw])
     ELSE <<>>)

InsightWorld ==
    [WideWorld EXCEPT !.generateContent =
        {Fail("API key not valid")} \cup {Reply(ReplyText(c)) : c \in ReplyCases}]

\* the answers the calls of this run draw from
Answers ==
    CASE world = "wide" -> WideWorld
      [] world = "narrow" -> NarrowWorld
      [] world = "replies" -> InsightWorld

-----------------------------------------------------------------------------
(* One request through POST /api/analyze (server.js:26-65) and              *)
(* analyzeRepository (analyzer.js:25-47). JavaScript runs a handler to its  *)
(* next await without interruption, so there is one action per await.       *)

Set(f, r, v) == [f EXCEPT ![r] = v]

\* the metrics object kept on the analyzer instance, shared by all calls
StoreMetricsShared(ms, r, m) == [q \in DOMAIN ms |-> m]

\* `const metrics = {}` (analyzer.js:51) is local to one fetchMetrics call
StoreMetrics(ms, r, m) == [ms EXCEPT ![r] = m]

Answered(r, resp) == resps' = Set(resps, r, Append(resps[r], resp))

Issue(r, events) == trace' = Set(trace, r, trace[r] \o events)

Continue(r, next) ==
    /\ pc' = Set(pc, r, next)
    /\ UNCHANGED <<outcome, response>>

\* res.status(400).json(...) of server.js:32-35 and 39-42
Reject(r, msg) ==
    /\ pc' = Set(pc, r, "done")
    /\ response' = Set(response, r,
           [status |-> 400, body |-> [success |-> FALSE, error |-> msg]])
    /\ UNCHANGED outcome

\* the catch of analyzeRepository (analyzer.js:44-46) and then the catch of
\* the handler (server.js:57-64)
Throw(r, msg) ==
    /\ pc' = Set(pc, r, "done")
    /\ outcome' = Set(outcome, r, [ok |-> FALSE, message |-> AnalysisFailed(msg)])
    /\ response' = Set(response, r,
           [status |-> 500,
            body |-> [success |-> FALSE, error |-> AnalysisFailed(msg)]])

\* analyzer.js:38-43 and server.js:52-55
Return(r, result) ==
    /\ pc' = Set(pc, r, "done")
    /\ outcome' = Set(outcome, r, [ok |-> TRUE, value |-> result])
    /\ response' = Set(response, r,
           [status |-> 200, body |-> [success |-> TRUE, data |-> result]])

\* server.js:28-48 and analyzer.js:26-30, 51-55: up to the first await
Post(r) ==
    /\ pc[r] = "idle"
    /\ \E u \in Answers.urls :
         /\ url' = Set(url, r, u)
         /\ IF u = <<>>
            THEN /\ Reject(r, "Repository URL is required")
                 /\ UNCHANGED <<parsed, metrics, trace>>
            ELSE IF ~includes(u, GithubCom)
            THEN /\ Reject(r, "Invalid GitHub URL")
                 /\ UNCHANGED <<parsed, metrics, trace>>
            ELSE LET p == parseRepoUrl(u)
                 IN  /\ parsed' = Set(parsed, r, p)
                     /\ IF p.ok
                        THEN /\ metrics' = StoreMetrics(metrics, r, <<>>)
                             /\ Issue(r, <<"parseRepoUrl", "fetchMetrics", "repos.get">>)
                             /\ Continue(r, "repos.get")
                        ELSE /\ Issue(r, <<"parseRepoUrl">>)
                             /\ Throw(r, p.message)
                             /\ UNCHANGED metrics
    /\ UNCHANGED <<requests, world, handles, probe, score, insights, resps>>

\* one answered call of fetchMetrics: m2 is the metrics object after it
FetchStep(r, call, resp, m2, next) ==
    /\ Answered(r, resp)
    /\ IF resp.ok \/ call \in CaughtCalls
       THEN /\ metrics' = StoreMetrics(metrics, r, m2)
            /\ Issue(r, <<next>>)
            /\ Continue(r, next)
       ELSE /\ Throw(r, FetchFailed(resp.message))
            /\ UNCHANGED <<metrics, trace>>
    /\ UNCHANGED <<requests, world, handles, url, parsed, score, insights>>

\* analyzer.js:55-65
ReposGet(r) ==
    /\ pc[r] = "repos.get"
    /\ \E resp \in Answers.reposGet :
         FetchStep(r, "repos.get", resp, AfterRepoGet(metrics[r], resp.data),
                   "repos.listLanguages")
    /\ UNCHANGED probe

\* analyzer.js:65-70
ListLanguages(r) ==
    /\ pc[r] = "repos.listLanguages"
    /\ \E resp \in Answers.listLanguages :
         FetchStep(r, "repos.listLanguages", resp,
                   AfterLanguages(metrics[r], resp.data), "repos.getReadme")
    /\ UNCHANGED probe

\* analyzer.js:69-83
GetReadme(r) ==
    /\ pc[r] = "repos.getReadme"
    /\ \E resp \in Answers.getReadme :
         FetchStep(r, "repos.getReadme", resp, AfterReadme(metrics[r], resp),
                   "repos.listCommits")
    /\ UNCHANGED probe

\* analyzer.js:79-99
ListCommits(r) ==
    /\ pc[r] = "repos.listCommits"
    /\ \E resp \in Answers.listCommits :
         FetchStep(r, "repos.listCommits", resp,
                   AfterCommits(metrics[r], resp.data, Answers.now),
                   "repos.listBranches")
    /\ UNCHANGED probe

\* analyzer.js:95-109
ListBranches(r) ==
    /\ pc[r] = "repos.listBranches"
    /\ \E resp \in Answers.listBranches :
         FetchStep(r, "repos.listBranches", resp,
                   AfterBranches(metrics[r], resp.data), "pulls.list")
    /\ UNCHANGED probe

\* analyzer.js:103-116 and 133-137
PullsList(r) ==
    /\ pc[r] = "pulls.list"
    /\ \E resp \in Answers.pullsList :
         FetchStep(r, "pulls.list", resp, AfterPulls(metrics[r], resp),
                   "checkForTests")
    /\ UNCHANGED probe

\* analyzer.js:116-119, 133-146 and the first probe of 159-161
CheckForTests(r) ==
    /\ pc[r] = "checkForTests"
    /\ \E resp \in Answers.getRoot :
         FetchStep(r, "checkForTests", resp,
                   Put(metrics[r], "has_tests", checkForTests(resp)),
                   "checkForCICD")
    /\ probe' = Set(probe, r, 1)

\* the return of fetchMetrics (analyzer.js:121), calculateScore
\* (analyzer.js:33) and generateAIInsights up to its await (analyzer.js:36, 267)
FinishFetch(r, m) ==
    /\ metrics' = StoreMetrics(metrics, r, m)
    /\ score' = Set(score, r, Some(calculateScore(m)))
    /\ Issue(r, <<"calculateScore", "generateAIInsights", "generateContent">>)
    /\ Continue(r, "generateContent")
    /\ UNCHANGED probe

\* checkForCICD (analyzer.js:150-169): the answer to the probe in flight
CheckForCICD(r) ==
    /\ pc[r] = "checkForCICD"
    /\ \E resp \in Answers.getPath :
         /\ Answered(r, resp)
         /\ IF resp.ok
            THEN FinishFetch(r, Put(metrics[r], "has_cicd", TRUE))
            ELSE IF probe[r] < Len(cicdPaths)
            THEN /\ probe' = Set(probe, r, probe[r] + 1)
                 /\ Issue(r, <<"checkForCICD">>)
                 /\ UNCHANGED <<pc, metrics, score, outcome, response>>
            ELSE FinishFetch(r, Put(metrics[r], "has_cicd", FALSE))
    /\ UNCHANGED <<requests, world, handles, url, parsed, insights>>

\* analyzer.js:267-304, then analyzer.js:38-43 and server.js:50-55
GenerateContent(r) ==
    /\ pc[r] = "generateContent"
    /\ \E gen \in Answers.generateContent :
         LET ins == generateAIInsights(metrics[r], score[r].value, gen)
         IN  /\ Answered(r, gen)
             /\ insights' = Set(insights, r, ins)
             /\ Return(r, [score |-> score[r].value, summary |-> ins.summary,
                           roadmap |-> ins.roadmap, metrics |-> metrics[r]])
    /\ UNCHANGED <<requests, world, handles, url, parsed, metrics, probe, score,
                   trace>>

\* calculateScore applied on its own to a record (analyzer.js:33)
CalculateScore(r) ==
    /\ pc[r] = "calculateScore"
    /\ score' = Set(score, r, Some(calculateScore(metrics[r])))
    /\ pc' = Set(pc, r, "scored")
    /\ UNCHANGED <<requests, world, handles, url, parsed, metrics, probe,
                   insights, outcome, response, trace, resps>>

\* parseRepoUrl applied on its own to a string (analyzer.js:27)
ParseRepoUrl(r) ==
    /\ pc[r] = "parseRepoUrl"
    /\ parsed' = Set(parsed, r, parseRepoUrl(url[r]))
    /\ pc' = Set(pc, r, "parsed")
    /\ UNCHANGED <<requests, world, handles, url, metrics, probe, score,
                   insights, outcome, response, trace, resps>>

-----------------------------------------------------------------------------
(* Specifications *)

\* server.js:14 and analyzer.js:5-12: the state after construction
Start(n, w) ==
    /\ requests = 1..n
    /\ world = w
    /\ handles = [octokit |-> "Octokit", model |-> "gemini-pro"]
    /\ pc = [r \in 1..n |-> "idle"]
    /\ url = [r \in 1..n |-> <<>>]
    /\ parsed = [r \in 1..n |-> None]
    /\ metrics = [r \in 1..n |-> <<>>]
    /\ probe = [r \in 1..n |-> 0]
    /\ score = [r \in 1..n |-> None]
    /\ insights = [r \in 1..n |-> None]
    /\ outcome = [r \in 1..n |-> None]
    /\ response = [r \in 1..n |-> None]
    /\ trace = [r \in 1..n |-> <<>>]
    /\ resps = [r \in 1..n |-> <<>>]

\* one request, every answer of WideWorld
Init == Start(1, "wide")
Next ==
    \/ \E r \in requests : Post(r)
    \/ \E r \in requests : ReposGet(r)
    \/ \E r \in requests : ListLanguages(r)
    \/ \E r \in requests : GetReadme(r)
    \/ \E r \in requests : ListCommits(r)
    \/ \E r \in requests : ListBranches(r)
    \/ \E r \in requests : PullsList(r)
    \/ \E r \in requests : CheckForTests(r)
    \/ \E r \in requests : CheckForCICD(r)
    \/ \E r \in requests : GenerateContent(r)
Spec == Init /\ [][Next]_vars

\* MaxRequests requests interleaved on the one analyzer
InitConc == Start(MaxRequests, "narrow")
SpecConc == InitConc /\ [][Next]_vars

-----------------------------------------------------------------------------
(* calculateScore over metrics records of the documented types *)

\* a record as fetchMetrics builds it; an absent README has length 0 and the
\* recent commits are among the fetched ones
Record(hr, rl, tc, rc, ht, hc, bc, pr) ==
    [name |-> "repo", stars |-> 3, forks |-> 1, watchers |-> 3,
     open_issues |-> 2, primary_language |-> "JavaScript",
     languages |-> <<"JavaScript">>,
     has_readme |-> hr, readme_length |-> rl,
     total_commits |-> tc, recent_commits |-> rc,
     branch_count |-> bc, total_prs |-> pr,
     has_tests |-> ht, has_cicd |-> hc]

ReadmeCases ==
    {<<FALSE, 0>>} \cup {<<TRUE, n>> : n \in {0, 500, 501, 1000, 1001, 1500}}

CommitCases ==
    {<<tc, rc>> \in {0, 1, 9, 10, 11, 12, 19, 20, 49, 50, 99, 100, 120}
                    \X {0, 1, 10, 11, 20, 21, 25} : rc <= tc}

ScoreInputs ==
    {Record(rd[1], rd[2], cm[1], cm[2], ht, hc, bc, pr) :
        rd \in ReadmeCases, cm \in CommitCases, ht \in BOOLEAN, hc \in BOOLEAN,
        bc \in {0, 1, 2, 3, 4, 5}, pr \in {0, 1, 10, 11, 15}}

\* a lone call, suspended nowhere, about to run the function named by at
Alone(at, w) ==
    /\ requests = {1}
    /\ world = w
    /\ handles = [octokit |-> "Octokit", model |-> "gemini-pro"]
    /\ pc = [r \in {1} |-> at]
    /\ probe = [r \in {1} |-> 0]
    /\ insights = [r \in {1} |-> None]
    /\ outcome = [r \in {1} |-> None]
    /\ response = [r \in {1} |-> None]
    /\ trace = [r \in {1} |-> <<>>]
    /\ resps = [r \in {1} |-> <<>>]

InitScore ==
    /\ Alone("calculateScore", "wide")
    /\ url = [r \in {1} |-> <<>>]
    /\ parsed = [r \in {1} |-> None]
    /\ score = [r \in {1} |-> None]
    /\ \E m \in ScoreInputs : metrics = [r \in {1} |-> m]

NextScore == \E r \in requests : CalculateScore(r)
SpecScore == InitScore /\ [][NextScore]_vars

-----------------------------------------------------------------------------
(* parseRepoUrl over strings with and without an owner/repo segment *)

RepoTokens == {<<"r">>, <<".">>, DotGit}

\* prefix, host, "/", owner, "/", repository name, rest
UrlCases ==
    [pre   : {<<>>, Https},
     owner : {<<"o">>, <<"o">> \o DotGit},
     repo  : {Flatten(t) : t \in TokenSeqs(RepoTokens, MaxRepoTokens) \ {<<>>}},
     post  : {<<>>, Slash, <<"/","t","r","e","e">>}]

UrlOf(c) == c.pre \o HostPrefix \o c.owner \o Slash \o c.repo \o c.post

\* strings with no owner/repo path segment after the host
NoSegmentUrls ==
    { <<>>, GithubCom, HostPrefix, HostPrefix \o <<"o">>,
      HostPrefix \o <<"o","/">>, HostPrefix \o <<"/","r">>,
      Https \o HostPrefix \o <<"o">>,
      <<"g","i","t","l","a","b",".","c","o","m","/","o","/","r">>,
      <<"o","/","r">> }

InitUrl ==
    /\ Alone("parseRepoUrl", "wide")
    /\ metrics = [r \in {1} |-> <<>>]
    /\ parsed = [r \in {1} |-> None]
    /\ score = [r \in {1} |-> None]
    /\ \E u \in {UrlOf(c) : c \in UrlCases} \cup NoSegmentUrls :
          url = [r \in {1} |-> u]

NextUrl == \E r \in requests : ParseRepoUrl(r)
SpecUrl == InitUrl /\ [][NextUrl]_vars

-----------------------------------------------------------------------------
(* generateAIInsights over replies of the generative service *)

InsightMetrics ==
    {Record(rd[1], rd[2], cm[1], cm[2], ht, hc, bc, pr) :
        rd \in {<<FALSE, 0>>, <<TRUE, 1002>>},
        cm \in {<<0, 0>>, <<30, 12>>, <<100, 25>>},
        ht \in BOOLEAN, hc \in BOOLEAN, bc \in {1, 5}, pr \in {0, 12}}

\* a call suspended at the await of generateContent (analyzer.js:267)
InitInsights ==
    /\ Alone("generateContent", "replies")
    /\ url = [r \in {1} |-> HostPrefix \o <<"o","/","r">>]
    /\ parsed = [r \in {1} |-> parseRepoUrl(HostPrefix \o <<"o","/","r">>)]
    /\ \E m \in InsightMetrics :
          /\ metrics = [r \in {1} |-> m]
          /\ score = [r \in {1} |-> Some(calculateScore(m))]

NextInsights == \E r \in requests : GenerateContent(r)
SpecInsights == InitInsights /\ [][NextInsights]_vars

-----------------------------------------------------------------------------
(* Claims *)

Last(seq) == seq[Len(seq)]

ReadmeRule(m) ==
    IF m.readme_length > 1000 THEN 20
    ELSE IF m.readme_length > 500 THEN 15
    ELSE IF m.has_readme THEN 10 ELSE 0

CommitRule(m) ==
    IF m.total_commits >= 100 THEN 25
    ELSE IF m.total_commits >= 50 THEN 20
    ELSE IF m.total_commits >= 20 THEN 15
    ELSE Max(5, m.total_commits \div 2)

RecentRule(m) ==
    IF m.recent_commits > 20 THEN 15
    ELSE IF m.recent_commits > 10 THEN 10
    ELSE IF m.recent_commits > 0 THEN 5 ELSE 0

BranchRule(m) ==
    IF m.branch_count > 3 THEN 5 ELSE IF m.branch_count > 1 THEN 3 ELSE 0

PullRule(m) ==
    IF m.total_prs > 10 THEN 5 ELSE IF m.total_prs > 0 THEN 3 ELSE 0

RuleSum(m) ==
    ReadmeRule(m) + CommitRule(m) + RecentRule(m)
    + (IF m.has_tests THEN 20 ELSE 0) + (IF m.has_cicd THEN 10 ELSE 0)
    + BranchRule(m) + PullRule(m)

StripDotGit(name) ==
    IF Len(name) >= Len(DotGit) /\ OccursAt(name, DotGit, Len(name) - Len(DotGit) + 1)
    THEN SubSeq(name, 1, Len(name) - Len(DotGit))
    ELSE name

\* C6: for a string with a github.com/owner/repo[.git] segment parseRepoUrl
\* returns that owner and the repository name less a trailing ".git" only;
\* for a string without an owner/repo segment it fails with
\* 'Invalid GitHub URL'.
C6_OwnerAndRepoLessTrailingDotGit ==
    \A r \in requests :
        pc[r] = "parsed" =>
            /\ \A c \in UrlCases :
                  UrlOf(c) = url[r] =>
                      parsed[r] = [ok |-> TRUE, owner |-> c.owner,
                                   repo |-> StripDotGit(c.repo)]
            /\ url[r] \in NoSegmentUrls =>
                  parsed[r] = [ok |-> FALSE, message |-> "Invalid GitHub URL"]

\* the URL has the shape the URL Parser requires
ValidUrl(u) == u # <<>> /\ parseRepoUrl(u).ok

SuccessBody(b) ==
    /\ b.success
    /\ DOMAIN b.data = {"score", "summary", "roadmap", "metrics"}

\* C3: a missing or invalid repo_url is answered 400 with success:false, 500
\* is answered only when the analysis of a valid URL fails, and every other
\* request gets {success:true, data:{score, summary, roadmap, metrics}}.
C3_StatusByCause ==
    \A r \in requests :
        pc[r] = "done" =>
            /\ ~ValidUrl(url[r]) =>
                  response[r].status = 400 /\ ~response[r].body.success
            /\ response[r].status = 500 =>
                  ValidUrl(url[r]) /\ ~response[r].body.success
            /\ response[r].status \notin {400, 500} =>
                  response[r].status = 200 /\ SuccessBody(response[r].body)

\* the fallback summaries of one score band
TemplatesAt(sc) == {fallbackSummary(m, sc) : m \in InsightMetrics}

\* C4: when generateContent throws, generateAIInsights does not raise: it
\* returns the fallback, whose roadmap has exactly 6 items and whose summary
\* is a non-empty template chosen by score (>70, >40, otherwise), and
\* analyzeRepository succeeds.
C4_ThrowGivesFallback ==
    \A r \in requests :
        (pc[r] = "done" /\ resps[r] # <<>> /\ ~Last(resps[r]).ok) =>
            /\ outcome[r].ok
            /\ outcome[r].value.roadmap = insights[r].roadmap
            /\ outcome[r].value.summary = insights[r].summary
            /\ Len(insights[r].roadmap) = 6
            /\ insights[r].summary # ""
            /\ insights[r].summary \in
                  (IF score[r].value > 70 THEN TemplatesAt(100)
                   ELSE IF score[r].value > 40 THEN TemplatesAt(50)
                   ELSE TemplatesAt(0))

\* C4 witness: the generation call threw on a record scored exactly 70, and
\* the analysis returned a result.
C4_Witness ==
    \E r \in requests :
        /\ pc[r] = "done" /\ ~Last(resps[r]).ok
        /\ score[r].value = 70
        /\ outcome[r].ok

AllQualify(lines) ==
    \A i \in 1..Len(lines) : lines[i].hyphen /\ lines[i].text # <<>>

\* C8: for a reply with a SUMMARY: block, the ROADMAP: marker and n lines
\* that after trimming start with "-" and carry text, the summary is the text
\* before the marker less the SUMMARY: token, trimmed, and the roadmap is
\* exactly the n bullet texts in order, each less its hyphen and the
\* whitespace after it.
C8_WellFormedReplyParsed ==
    \A r \in requests :
        (pc[r] = "done" /\ Last(resps[r]).ok) =>
            \A c \in ReplyCases :
                (/\ ReplyText(c) = Last(resps[r]).text
                 /\ c.head.token /\ c.marker /\ AllQualify(c.lines)) =>
                    /\ insights[r].summary = Join(c.head.text)
                    /\ insights[r].roadmap =
                          [i \in 1..Len(c.lines) |-> Join(c.lines[i].text)]

NoHyphenLine(lines) == \A i \in 1..Len(lines) : ~lines[i].hyphen

\* C9: a reply that arrives but has no ROADMAP: marker, or no hyphen line
\* after it, gives the parsed summary with an empty roadmap, not the
\* six-item fallback.
C9_MalformedReplyNoFallback ==
    \A r \in requests :
        (pc[r] = "done" /\ Last(resps[r]).ok) =>
            \A c \in ReplyCases :
                (/\ ReplyText(c) = Last(resps[r]).text
                 /\ (~c.marker \/ NoHyphenLine(c.lines))) =>
                    /\ insights[r].roadmap = <<>>
                    /\ insights[r].summary = Join(c.head.text)
                    /\ insights[r].summary \notin
                          TemplatesAt(100) \cup TemplatesAt(50) \cup TemplatesAt(0)

\* C9 witness: an empty reply arrived and the result is an empty summary
\* with an empty roadmap.
C9_Witness ==
    \E r \in requests :
        /\ pc[r] = "done" /\ Last(resps[r]).ok
        /\ Last(resps[r]).text = <<>>
        /\ insights[r] = [summary |-> "", roadmap |-> <<>>]

StageNames == {"parseRepoUrl", "fetchMetrics", "calculateScore", "generateAIInsights"}

IsStage(e) == e \in StageNames
IsCall(e) == e \notin StageNames

\* the stages a request entered and the outbound calls it issued, in order;
\* the i-th answer received answers the i-th call issued
Stages(r) == SelectSeq(trace[r], IsStage)
Calls(r) == SelectSeq(trace[r], IsCall)

FailedCalls(r) ==
    {Calls(r)[i] : i \in {j \in 1..Len(resps[r]) : ~resps[r][j].ok}}

\* fetchMetrics raised 'Failed to fetch metrics', and so the analysis failed
FetchRaised(r) ==
    /\ outcome[r] # None /\ ~outcome[r].ok
    /\ resps[r] # <<>> /\ ~Last(resps[r]).ok
    /\ outcome[r].message =
          "Analysis failed: Failed to fetch metrics: " \o Last(resps[r]).message

\* fetchMetrics returned its record (the Scorer ran on it)
FetchReturned(r) == score[r].some

MetricsFields ==
    {"name", "stars", "forks", "watchers", "open_issues", "primary_language",
     "languages", "has_readme", "readme_length", "total_commits",
     "recent_commits", "branch_count", "total_prs", "has_tests", "has_cicd"}

FatalCalls ==
    {"repos.get", "repos.listLanguages", "repos.listCommits", "repos.listBranches"}

AnswersTo(r, call) ==
    {resps[r][i] : i \in {j \in 1..Len(resps[r]) : Calls(r)[j] = call}}

AllProbesFailed(r) ==
    /\ Cardinality({j \in 1..Len(resps[r]) : Calls(r)[j] = "checkForCICD"}) = Len(cicdPaths)
    /\ \A a \in AnswersTo(r, "checkForCICD") : ~a.ok

\* every field present and of its documented type, none null
FullyPopulated(m) ==
    /\ DOMAIN m = MetricsFields
    /\ m.name \in STRING /\ m.primary_language \in STRING
    /\ m.primary_language # ""
    /\ \A f \in {"stars", "forks", "watchers", "open_issues", "readme_length",
                 "total_commits", "recent_commits", "branch_count", "total_prs"} :
          m[f] \in Nat
    /\ \A f \in {"has_readme", "has_tests", "has_cicd"} : m[f] \in BOOLEAN
    /\ \A i \in 1..Len(m.languages) : m.languages[i] \in STRING

\* the defaults left by the sub-fetches whose failure is absorbed
DefaultsOfAbsorbedFailures(r, m) ==
    /\ "repos.getReadme" \in FailedCalls(r) =>
          m.has_readme = FALSE /\ m.readme_length = 0
    /\ "pulls.list" \in FailedCalls(r) => m.total_prs = 0
    /\ "checkForTests" \in FailedCalls(r) => m.has_tests = FALSE
    /\ AllProbesFailed(r) => m.has_cicd = FALSE
    /\ (\A a \in AnswersTo(r, "repos.get") : ~a.data.language.some) =>
          m.primary_language = "Unknown"

IsPrefix(a, b) == Len(a) <= Len(b) /\ a = SubSeq(b, 1, Len(a))

InTrace(r, e) == \E i \in 1..Len(trace[r]) : trace[r][i] = e

\* C5: the stages run in the order Parser, Fetcher, Scorer, Generator, each
\* only after the one before completed; after a parse failure no hosting
\* call is made, after a fetch failure no generative call; and a finished
\* analysis is either a result with score, summary, roadmap and metrics or
\* the single error 'Analysis failed: <originating message>'.
C5_StagesInOrderOneOutcome ==
    \A r \in requests :
        /\ IsPrefix(Stages(r), <<"parseRepoUrl", "fetchMetrics", "calculateScore",
                                 "generateAIInsights">>)
        /\ InTrace(r, "fetchMetrics") => parsed[r] # None /\ parsed[r].ok
        /\ InTrace(r, "calculateScore") =>
              /\ DOMAIN metrics[r] = MetricsFields
              /\ FailedCalls(r) \cap FatalCalls = {}
        /\ InTrace(r, "generateAIInsights") => score[r].some
        /\ (parsed[r] # None /\ ~parsed[r].ok) => Calls(r) = <<>>
        /\ FailedCalls(r) \cap FatalCalls # {} => ~InTrace(r, "generateContent")
        /\ (pc[r] = "done" /\ trace[r] # <<>>) =>
              \/ /\ outcome[r].ok
                 /\ DOMAIN outcome[r].value = {"score", "summary", "roadmap", "metrics"}
                 /\ Stages(r) = <<"parseRepoUrl", "fetchMetrics", "calculateScore",
                                  "generateAIInsights">>
              \/ /\ ~outcome[r].ok
                 /\ DOMAIN outcome[r] = {"ok", "message"}
                 /\ outcome[r].message =
                       "Analysis failed: " \o
                       (IF parsed[r].ok
                        THEN "Failed to fetch metrics: " \o Last(resps[r]).message
                        ELSE "Invalid GitHub URL")

\* C5 witness: an analysis whose commit fetch failed, ended with the wrapped
\* error and without a generative call.
C5_Witness ==
    \E r \in requests :
        /\ pc[r] = "done"
        /\ "repos.listCommits" \in FailedCalls(r)
        /\ ~outcome[r].ok
        /\ Stages(r) = <<"parseRepoUrl", "fetchMetrics">>

\* the CI/CD probes of a request run alone: the answers of rs from
\* position i on, up to the first success or the last path
RECURSIVE ProbesAlone(_, _, _)
ProbesAlone(rs, i, k) ==
    IF rs[i].ok THEN [has_cicd |-> TRUE, next |-> i + 1]
    ELSE IF k < Len(cicdPaths) THEN ProbesAlone(rs, i + 1, k + 1)
    ELSE [has_cicd |-> FALSE, next |-> i + 1]

Failure(msg) ==
    [outcome |-> [ok |-> FALSE, message |-> "Analysis failed: " \o msg],
     response |-> [status |-> 500,
                   body |-> [success |-> FALSE,
                             error |-> "Analysis failed: " \o msg]]]

FetchFailure(resp) == Failure("Failed to fetch metrics: " \o resp.message)

\* the outcome and the HTTP response of one request served alone, given its
\* URL and the answers rs that the outside gave it, in order
RunAlone(u, rs, now) ==
    IF u = <<>> \/ ~includes(u, GithubCom)
    THEN [outcome |-> None,
          response |-> [status |-> 400,
                        body |-> [success |-> FALSE,
                                  error |-> IF u = <<>>
                                            THEN "Repository URL is required"
                                            ELSE "Invalid GitHub URL"]]]
    ELSE IF ~parseRepoUrl(u).ok THEN Failure("Invalid GitHub URL")
    ELSE IF ~rs[1].ok THEN FetchFailure(rs[1])
    ELSE IF ~rs[2].ok THEN FetchFailure(rs[2])
    ELSE IF ~rs[4].ok THEN FetchFailure(rs[4])
    ELSE IF ~rs[5].ok THEN FetchFailure(rs[5])
    ELSE
      LET m1 == AfterRepoGet(<<>>, rs[1].data)
          m2 == AfterLanguages(m1, rs[2].data)
          m3 == AfterReadme(m2, rs[3])
          m4 == AfterCommits(m3, rs[4].data, now)
          m5 == AfterBranches(m4, rs[5].data)
          m6 == AfterPulls(m5, rs[6])
          m7 == Put(m6, "has_tests", checkForTests(rs[7]))
          pr == ProbesAlone(rs, 8, 1)
          m8 == Put(m7, "has_cicd", pr.has_cicd)
          sc == calculateScore(m8)
          ins == generateAIInsights(m8, sc, rs[pr.next])
          result == [score |-> sc, summary |-> ins.summary,
                     roadmap |-> ins.roadmap, metrics |-> m8]
      IN  [outcome |-> [ok |-> TRUE, value |-> result],
           response |-> [status |-> 200,
                         body |-> [success |-> TRUE, data |-> result]]]

\* everything a request owns
Locals(r) ==
    <<pc[r], url[r], parsed[r], metrics[r], probe[r], score[r], insights[r],
      outcome[r], response[r], trace[r], resps[r]>>

ResultsAsAlone ==
    \A r \in requests :
        pc[r] = "done" =>
            [outcome |-> outcome[r], response |-> response[r]]
                = RunAlone(url[r], resps[r], Answers.now)

\* one step belongs to one request and leaves every other request's state,
\* its metrics record included, and the two client handles as they were
NoInterference ==
    /\ handles' = handles
    /\ \A r, q \in requests :
          (Locals(r)' # Locals(r) /\ Locals(q)' # Locals(q)) => r = q

\* C10: with requests interleaved at their awaits on the one analyzer, every
\* request ends with the result it gets when served alone on the same
\* answers; no step of one request touches another request's state and the
\* client handles are never modified.
C10_InterleavedAsAlone == []ResultsAsAlone /\ [][NoInterference]_vars

\* C10 witness: two requests suspended at the same time, each holding its
\* own metrics record, one with a README and one whose README fetch failed.
C10_Witness ==
    \E r, q \in requests :
        /\ pc[r] = "generateContent" /\ pc[q] = "generateContent"
        /\ metrics[r].has_readme /\ ~metrics[q].has_readme
        /\ score[r].value # score[q].value

====
